---- MODULE Spec2Model ----
(***************************************************************************)
(* A model of rs-Foundation's production planner (src/solver.rs) and of    *)
(* the catalog queries it uses (src/json.rs).  Solver::solve is a          *)
(* sequential program; the model steps through its phases: pruning of      *)
(* infeasible recipes, construction of the flow graph and of the linear    *)
(* program, the call into the LP engine, and the extraction of the Factory.*)
(* Rates, amounts and times are whole numbers; an underclock is kept as    *)
(* the fraction num/den.                                                   *)
(***************************************************************************)
EXTENDS Integers, Sequences, FiniteSets, TLC

VARIABLES catalog, keyOrder, targets, resources, disallowed_recipes,
          pc, infeasible_recipes, stack, targets_left, recipes_to_add,
          problem, links, solution, factory, expansions, inserts, trims,
          disallowed_at_entry

vars == <<catalog, keyOrder, targets, resources, disallowed_recipes,
          pc, infeasible_recipes, stack, targets_left, recipes_to_add,
          problem, links, solution, factory, expansions, inserts, trims,
          disallowed_at_entry>>

(***************************************************************************)
(* Bounds of the model.                                                    *)
(***************************************************************************)
\* largest requested target rate
MaxRate == 2
\* largest number of requested targets
MaxTargets == 2
\* largest number of remove_recipe calls before solve
MaxRemoved == 1
\* largest number of add_resource calls before solve
MaxAdded == 1
\* largest flow the LP engine assigns to one variable
MaxFlow == 4

(***************************************************************************)
(* Program constants.                                                      *)
(***************************************************************************)
F64Max == 1000000000
ByproductCoefficient == 1000
SecondsPerMinute == 60
\* the noise threshold 0.00001 as the fraction NoiseNum / NoiseDen
NoiseNum == 1
NoiseDen == 100000

(***************************************************************************)
(* Identifiers.  Item ids carry the prefix "Desc_", recipe ids do not.     *)
(***************************************************************************)
Ore == "Desc_OreIron_C"
ItA == "Desc_A_C"
ItB == "Desc_B_C"
ItT == "Desc_T_C"
ItU == "Desc_U_C"
Missing == "Desc_Missing_C"
R1 == "Recipe_1_C"
R2 == "Recipe_2_C"
R3 == "Recipe_3_C"

DescIds == {Ore, ItA, ItB, ItT, ItU, Missing}

\* str::starts_with("Desc_") on the identifiers of the model
StartsWithDesc(id) == id \in DescIds

EmptyMap == [x \in {} |-> x]

Put(f, k, v) == [x \in (DOMAIN f) \cup {k} |-> IF x = k THEN v ELSE f[x]]

Range(s) == {s[i] : i \in DOMAIN s}

(***************************************************************************)
(* The catalog (GameData).                                                 *)
(***************************************************************************)
ItemQuantity(i, a) == [item |-> i, amount |-> a]

Recipe(n, t, ins, outs) ==
    [name |-> n, time |-> t, ingredients |-> ins, products |-> outs]

Items ==
    (Ore :> [name |-> "Iron Ore"]) @@ (ItA :> [name |-> "Item A"]) @@
    (ItB :> [name |-> "Item B"]) @@ (ItT :> [name |-> "Item T"]) @@
    (ItU :> [name |-> "Item U"])

\* a chain Ore -> A -> T -> U
CatalogChain ==
    [items |-> Items,
     recipes |->
        (R1 :> Recipe("Make A", 30, <<ItemQuantity(Ore, 1)>>, <<ItemQuantity(ItA, 1)>>)) @@
        (R2 :> Recipe("Make T", 60, <<ItemQuantity(ItA, 2)>>, <<ItemQuantity(ItT, 1)>>)) @@
        (R3 :> Recipe("Make U", 120, <<ItemQuantity(ItT, 1)>>, <<ItemQuantity(ItU, 1)>>))]

\* a cycle: Recipe 1 consumes A made by Recipe 2, Recipe 2 consumes B made by Recipe 1
CatalogCycle ==
    [items |-> Items,
     recipes |->
        (R1 :> Recipe("Make B", 60, <<ItemQuantity(ItA, 1), ItemQuantity(ItU, 1)>>,
                                    <<ItemQuantity(ItB, 1)>>)) @@
        (R2 :> Recipe("Make A and T", 60, <<ItemQuantity(ItB, 1)>>,
                                    <<ItemQuantity(ItA, 1), ItemQuantity(ItT, 1)>>)) @@
        (R3 :> Recipe("Smelt A", 30, <<ItemQuantity(Ore, 1)>>, <<ItemQuantity(ItA, 1)>>))]

\* one producer supplying two items to one consumer that makes two products
CatalogPair ==
    [items |-> Items,
     recipes |->
        (R1 :> Recipe("Make A and B", 60, <<ItemQuantity(Ore, 1)>>,
                                    <<ItemQuantity(ItA, 1), ItemQuantity(ItB, 1)>>)) @@
        (R2 :> Recipe("Make T and U", 120, <<ItemQuantity(ItA, 1), ItemQuantity(ItB, 1)>>,
                                    <<ItemQuantity(ItT, 1), ItemQuantity(ItU, 1)>>))]

\* two alternative producers of T, one of them with a second product, and a
\* consumer of T
CatalogAlt ==
    [items |-> Items,
     recipes |->
        (R1 :> Recipe("Smelt T", 30, <<ItemQuantity(Ore, 1)>>, <<ItemQuantity(ItT, 1)>>)) @@
        (R2 :> Recipe("Refine T", 60, <<ItemQuantity(Ore, 2)>>,
                                    <<ItemQuantity(ItT, 1), ItemQuantity(ItB, 1)>>)) @@
        (R3 :> Recipe("Make U", 90, <<ItemQuantity(ItT, 1)>>, <<ItemQuantity(ItU, 2)>>))]

\* a recipe that consumes one of its own products
CatalogLoop ==
    [items |-> Items,
     recipes |->
        (R1 :> Recipe("Breed A", 60, <<ItemQuantity(ItA, 1), ItemQuantity(Ore, 1)>>,
                                    <<ItemQuantity(ItA, 2), ItemQuantity(ItT, 1)>>)) @@
        (R2 :> Recipe("Make U", 40, <<ItemQuantity(ItA, 1)>>, <<ItemQuantity(ItU, 1)>>))]

\* U has no producer: Recipe 1 and Recipe 2 both need it, Recipe 2 and
\* Recipe 3 consume the A of Recipe 1, and Recipe 3 the B of Recipe 2
CatalogDead ==
    [items |-> Items,
     recipes |->
        (R1 :> Recipe("Make A", 60, <<ItemQuantity(ItU, 1)>>, <<ItemQuantity(ItA, 1)>>)) @@
        (R2 :> Recipe("Make B", 60, <<ItemQuantity(ItA, 1), ItemQuantity(ItU, 1)>>,
                                    <<ItemQuantity(ItB, 1)>>)) @@
        (R3 :> Recipe("Make T", 60, <<ItemQuantity(ItA, 1), ItemQuantity(ItB, 1)>>,
                                    <<ItemQuantity(ItT, 1)>>))]

CatalogNames == {"chain", "cycle", "pair", "alt", "loop", "dead"}

\* the GameData the solver was made with
data ==
    CASE catalog = "chain" -> CatalogChain
      [] catalog = "cycle" -> CatalogCycle
      [] catalog = "pair" -> CatalogPair
      [] catalog = "alt" -> CatalogAlt
      [] catalog = "loop" -> CatalogLoop
      [] catalog = "dead" -> CatalogDead

TargetCandidates == {ItT, ItU, Missing}

AddCandidates == {ItA, ItU}

\* the default resources of Solver::new that the catalogs of the model use
DefaultResources == Ore :> [limit |-> 70380, weight |-> 10]

RecipeIds == DOMAIN data.recipes

GetItemName(item_id) == data.items[item_id].name

GetRecipeName(recipe_id) == data.recipes[recipe_id].name

GetIngredients(recipe_id) ==
    [k \in DOMAIN data.recipes[recipe_id].ingredients |->
        data.recipes[recipe_id].ingredients[k].item]

GetProducts(recipe_id) ==
    [k \in DOMAIN data.recipes[recipe_id].products |->
        data.recipes[recipe_id].products[k].item]

\* the recipes of keyOrder[k..] outside dis, once for every entry of
\* list[recipe] equal to item_id
RECURSIVE RecipesListing(_, _, _, _)
RecipesListing(list, item_id, dis, k) ==
    IF k > Len(keyOrder) THEN <<>>
    ELSE LET recipe_id == keyOrder[k]
             hits == IF recipe_id \in dis THEN <<>>
                     ELSE SelectSeq(list[recipe_id], LAMBDA x : x = item_id)
         IN  [i \in 1..Len(hits) |-> recipe_id] \o RecipesListing(list, item_id, dis, k + 1)

GetItemCreators(item_id, dis) ==
    RecipesListing([recipe_id \in RecipeIds |-> GetProducts(recipe_id)], item_id, dis, 1)

GetItemUsers(item_id, dis) ==
    RecipesListing([recipe_id \in RecipeIds |-> GetIngredients(recipe_id)], item_id, dis, 1)

(***************************************************************************)
(* Feasibility pruner.                                                     *)
(***************************************************************************)
\* is_feasible without the resource test
IsFeasible_IgnoringResources(recipe_id, dis) ==
    \A k \in DOMAIN GetIngredients(recipe_id) :
        GetItemCreators(GetIngredients(recipe_id)[k], dis) # <<>>

IsFeasible(recipe_id, dis) ==
    \A k \in DOMAIN GetIngredients(recipe_id) :
        LET ingredient == GetIngredients(recipe_id)[k]
            resource_provided == ingredient \in DOMAIN resources
            no_recipes_exist == GetItemCreators(ingredient, dis) = <<>>
        IN  ~(~resource_provided /\ no_recipes_exist)

\* the frame of one call of trim_parents: the product loop at pi, the
\* consumers found for that product when its loop began, and the position
\* ui in them
Frame(recipe_id, dis) ==
    LET products == GetProducts(recipe_id)
    IN  [recipe |-> recipe_id, pi |-> 1,
         users |-> IF Len(products) >= 1 THEN GetItemUsers(products[1], dis) ELSE <<>>,
         ui |-> 1]

Top == stack[Len(stack)]

ReplaceTop(f) == [stack EXCEPT ![Len(stack)] = f]

Bump(count, id) == [count EXCEPT ![id] = @ + 1]

(***************************************************************************)
(* Solver::new, and the configuration calls made before solve.             *)
(***************************************************************************)
Orders(S) ==
    {p \in [1..Cardinality(S) -> S] : \A i, j \in DOMAIN p : i # j => p[i] # p[j]}

\* the rates a target is requested with; the rate of an id that is no item
\* is never read
TargetRates(t) == IF t = Missing THEN {1} ELSE 1..MaxRate

TargetMaps ==
    UNION {{m \in [S -> 1..MaxRate] : \A t \in S : m[t] \in TargetRates(t)} :
            S \in {X \in SUBSET TargetCandidates :
                    Cardinality(X) >= 1 /\ Cardinality(X) <= MaxTargets}}

NoSolution == <<>>

Init ==
    /\ catalog \in CatalogNames
    /\ keyOrder \in Orders(DOMAIN data.recipes)
    /\ targets \in TargetMaps
    /\ resources = DefaultResources
    /\ disallowed_recipes = {}
    /\ pc = "config"
    /\ infeasible_recipes = <<>>
    /\ stack = <<>>
    /\ targets_left = {}
    /\ recipes_to_add = <<>>
    /\ problem = [vars |-> <<>>, constraints |-> <<>>]
    /\ links = EmptyMap
    /\ solution = NoSolution
    /\ factory = [nodes |-> EmptyMap]
    /\ expansions = [r \in DOMAIN data.recipes |-> 0]
    /\ inserts = [r \in DOMAIN data.recipes |-> 0]
    /\ trims = [r \in DOMAIN data.recipes |-> 0]
    /\ disallowed_at_entry = {}

PruneUnchanged ==
    <<catalog, keyOrder, targets, resources, targets_left, recipes_to_add,
      problem, links, solution, factory, expansions, disallowed_at_entry>>

AddResource(resource, amount) ==
    /\ pc = "config"
    /\ Cardinality((DOMAIN resources) \ (DOMAIN DefaultResources)) < MaxAdded
    /\ resource \notin DOMAIN resources
    /\ resources' = Put(resources, resource, [limit |-> amount, weight |-> 0])
    /\ UNCHANGED <<catalog, keyOrder, targets, disallowed_recipes, pc, infeasible_recipes,
                   stack, targets_left, recipes_to_add, problem, links, solution,
                   factory, expansions, inserts, trims, disallowed_at_entry>>

RemoveRecipe(recipe_id) ==
    /\ pc = "config"
    /\ Cardinality(disallowed_recipes) < MaxRemoved
    /\ recipe_id \notin disallowed_recipes
    /\ disallowed_recipes' = disallowed_recipes \cup {recipe_id}
    /\ UNCHANGED <<catalog, keyOrder, targets, resources, pc, infeasible_recipes,
                   stack, targets_left, recipes_to_add, problem, links, solution,
                   factory, expansions, inserts, trims, disallowed_at_entry>>

(***************************************************************************)
(* solve, pruning phase.                                                   *)
(***************************************************************************)
\* the first loop of solve: the recipes outside the disallowed set that are
\* infeasible, in the iteration order of the recipe map
ScanInfeasible ==
    /\ pc = "config"
    /\ infeasible_recipes' =
         SelectSeq(keyOrder, LAMBDA r : r \notin disallowed_recipes
                                        /\ ~IsFeasible(r, disallowed_recipes))
    /\ disallowed_at_entry' = disallowed_recipes
    /\ pc' = "prune"
    /\ UNCHANGED <<catalog, keyOrder, targets, resources, disallowed_recipes, stack,
                   targets_left, recipes_to_add, problem, links, solution, factory,
                   expansions, inserts, trims>>

\* the second loop of solve: remove_recipe, then the call of trim_parents
PruneNext ==
    /\ pc = "prune"
    /\ stack = <<>>
    /\ infeasible_recipes # <<>>
    /\ LET recipe_id == Head(infeasible_recipes)
           dis == disallowed_recipes \cup {recipe_id}
       IN  /\ disallowed_recipes' = dis
           /\ inserts' = Bump(inserts, recipe_id)
           /\ trims' = Bump(trims, recipe_id)
           /\ stack' = <<Frame(recipe_id, dis)>>
    /\ infeasible_recipes' = Tail(infeasible_recipes)
    /\ UNCHANGED pc
    /\ UNCHANGED PruneUnchanged

\* trim_parents: the next consumer of the current product
TrimParent ==
    /\ pc = "prune"
    /\ stack # <<>>
    /\ Top.pi <= Len(GetProducts(Top.recipe))
    /\ Top.ui <= Len(Top.users)
    /\ LET parent_id == Top.users[Top.ui]
           advanced == ReplaceTop([Top EXCEPT !.ui = @ + 1])
           dis == disallowed_recipes \cup {parent_id}
       IN  IF ~IsFeasible(parent_id, disallowed_recipes)
           THEN /\ disallowed_recipes' = dis
                /\ inserts' = Bump(inserts, parent_id)
                /\ trims' = Bump(trims, parent_id)
                /\ stack' = Append(advanced, Frame(parent_id, dis))
           ELSE /\ stack' = advanced
                /\ UNCHANGED <<disallowed_recipes, inserts, trims>>
    /\ UNCHANGED <<pc, infeasible_recipes>>
    /\ UNCHANGED PruneUnchanged

\* trim_parents: the consumers of one product are done, on to the next product
TrimNextProduct ==
    /\ pc = "prune"
    /\ stack # <<>>
    /\ Top.pi <= Len(GetProducts(Top.recipe))
    /\ Top.ui > Len(Top.users)
    /\ LET products == GetProducts(Top.recipe)
           next == Top.pi + 1
       IN  stack' = ReplaceTop(
              [Top EXCEPT !.pi = next,
                          !.users = IF next <= Len(products)
                                    THEN GetItemUsers(products[next], disallowed_recipes)
                                    ELSE <<>>,
                          !.ui = 1])
    /\ UNCHANGED <<pc, infeasible_recipes, disallowed_recipes, inserts, trims>>
    /\ UNCHANGED PruneUnchanged

\* trim_parents returns
TrimReturn ==
    /\ pc = "prune"
    /\ stack # <<>>
    /\ Top.pi > Len(GetProducts(Top.recipe))
    /\ stack' = SubSeq(stack, 1, Len(stack) - 1)
    /\ UNCHANGED <<pc, infeasible_recipes, disallowed_recipes, inserts, trims>>
    /\ UNCHANGED PruneUnchanged

PruneDone ==
    /\ pc = "prune"
    /\ stack = <<>>
    /\ infeasible_recipes = <<>>
    /\ pc' = "targets"
    /\ targets_left' = DOMAIN targets
    /\ UNCHANGED <<catalog, keyOrder, targets, resources, disallowed_recipes,
                   infeasible_recipes, stack, recipes_to_add, problem, links,
                   solution, factory, expansions, inserts, trims, disallowed_at_entry>>

(***************************************************************************)
(* LinkSet and the variables of the LP problem.  A builder state b holds   *)
(* the link map, the variables registered so far and, for every recipe,     *)
(* the number of calls of add_variables made on it.                        *)
(***************************************************************************)
Link(item, destination, variable) ==
    [item |-> item, destination |-> destination, variable |-> variable]

\* problem.add_var, then the push of the new link under key
PushLink(b, key, item, destination, weight, upper) ==
    LET link == Link(item, destination, Len(b.vars))
    IN  [b EXCEPT !.vars = Append(@, [weight |-> weight, min |-> 0, max |-> upper]),
                  !.links = IF key \in DOMAIN @
                            THEN [@ EXCEPT ![key] = Append(@, link)]
                            ELSE Put(@, key, <<link>>)]

AddSimpleVariable(b, source, destination, item) ==
    PushLink(b, source, item, destination, 1, F64Max)

AddWeightedVariable(b, source, destination, item, weight) ==
    PushLink(b, source, item, destination, weight, F64Max)

AddResourceVariable(b, resource, destination, item) ==
    PushLink(b, item, item, destination, resource.weight, resource.limit)

RECURSIVE SortedKeys(_, _)
\* the keys S of the link map lk, by the variable of their first link
SortedKeys(lk, S) ==
    IF S = {} THEN <<>>
    ELSE LET first == CHOOSE k \in S :
                        \A o \in S : lk[k][1].variable <= lk[o][1].variable
         IN  <<first>> \o SortedKeys(lk, S \ {first})

\* one iteration order of the link map: that of the insertion of its keys
KeysInOrder(lk) == SortedKeys(lk, DOMAIN lk)

RECURSIVE IncomingFrom(_, _, _, _)
IncomingFrom(lk, keys, destination, item) ==
    IF keys = <<>> THEN <<>>
    ELSE SelectSeq(lk[Head(keys)],
                   LAMBDA l : l.destination = destination /\ l.item = item)
         \o IncomingFrom(lk, Tail(keys), destination, item)

GetIncomingForItem(lk, destination, item) ==
    IncomingFrom(lk, KeysInOrder(lk), destination, item)

GetOutgoingForItem(lk, source, item) ==
    SelectSeq(lk[source], LAMBDA l : l.item = item)

Builder == [links |-> links, vars |-> problem.vars, expansions |-> expansions]

(***************************************************************************)
(* solve, the target loop.                                                 *)
(***************************************************************************)
\* a constraint of the problem, with the place of solve that registered it:
\* the rate constraint of a target (node), or the balance constraint of a
\* production node for one ingredient and one product
Constraint(kind, node, ingredient, product, terms, op, rhs) ==
    [kind |-> kind, node |-> node, ingredient |-> ingredient, product |-> product,
     terms |-> terms, op |-> op, rhs |-> rhs]

Term(variable, coefficient) == [var |-> variable, coef |-> coefficient]

RECURSIVE AddOutputLinks(_, _, _)
AddOutputLinks(b, creators, output_item_id) ==
    IF creators = <<>> THEN b
    ELSE AddOutputLinks(
            AddSimpleVariable(b, Head(creators), output_item_id, output_item_id),
            Tail(creators), output_item_id)

\* the links the rate constraint of a target sums
TargetLinks(lk, output_item_id) ==
    GetIncomingForItem(lk, output_item_id, output_item_id)

\* the comparison of the rate constraint
TargetOp_AtLeast == "Ge"

TargetOp == "Eq"

TargetConstraint(lk, output_item_id) ==
    LET incoming == TargetLinks(lk, output_item_id)
    IN  Constraint("target", output_item_id, output_item_id, output_item_id,
                   [i \in 1..Len(incoming) |-> Term(incoming[i].variable, 1)],
                   TargetOp, targets[output_item_id])

\* the target loop without its check
IsItem_Unchecked(item_id) == TRUE

\* the check at the head of the target loop
IsItem(item_id) == item_id \in DOMAIN data.items

\* an iteration of the target loop on an id that is no item: the panic
TargetUnknown(output_item_id) ==
    /\ pc = "targets"
    /\ output_item_id \in targets_left
    /\ ~IsItem(output_item_id)
    /\ pc' = "panic_not_an_item"
    /\ UNCHANGED <<catalog, keyOrder, targets, resources, disallowed_recipes,
                   infeasible_recipes, stack, targets_left, recipes_to_add, problem,
                   links, solution, factory, expansions, inserts, trims,
                   disallowed_at_entry>>

\* an iteration of the target loop on an item of the catalog
TargetKnown(output_item_id) ==
    /\ pc = "targets"
    /\ output_item_id \in targets_left
    /\ IsItem(output_item_id)
    /\ LET creators == GetItemCreators(output_item_id, disallowed_recipes)
           b == AddOutputLinks(Builder, creators, output_item_id)
       IN  /\ links' = b.links
           /\ recipes_to_add' = recipes_to_add \o creators
           /\ problem' = [vars |-> b.vars,
                          constraints |-> Append(problem.constraints,
                                                 TargetConstraint(b.links, output_item_id))]
    /\ targets_left' = targets_left \ {output_item_id}
    /\ UNCHANGED <<catalog, keyOrder, targets, resources, disallowed_recipes, pc,
                   infeasible_recipes, stack, solution, factory, expansions, inserts,
                   trims, disallowed_at_entry>>

TargetsDone ==
    /\ pc = "targets"
    /\ targets_left = {}
    /\ pc' = "expand"
    /\ UNCHANGED <<catalog, keyOrder, targets, resources, disallowed_recipes,
                   infeasible_recipes, stack, targets_left, recipes_to_add, problem,
                   links, solution, factory, expansions, inserts, trims,
                   disallowed_at_entry>>

(***************************************************************************)
(* add_variables.                                                          *)
(***************************************************************************)
\* the test that guards the recursion of add_variables
Exists(lk, child_recipe_id) == child_recipe_id \in DOMAIN lk

RECURSIVE AddVariablesFrom(_, _, _), AddChildren(_, _, _, _)
\* the ingredient loop of add_variables(recipe_id), from ingredient k on
AddVariablesFrom(b, recipe_id, k) ==
    IF k > Len(GetIngredients(recipe_id)) THEN b
    ELSE LET ingredient == GetIngredients(recipe_id)[k]
             b1 == IF ingredient \in DOMAIN resources
                   THEN AddResourceVariable(b, resources[ingredient], recipe_id, ingredient)
                   ELSE b
             b2 == AddChildren(b1, recipe_id, ingredient,
                               GetItemCreators(ingredient, disallowed_recipes))
         IN  AddVariablesFrom(b2, recipe_id, k + 1)

\* the loop of add_variables over the producers of one ingredient
AddChildren(b, recipe_id, ingredient, creators) ==
    IF creators = <<>> THEN b
    ELSE LET child_recipe_id == Head(creators)
             exists == Exists(b.links, child_recipe_id)
             b1 == AddSimpleVariable(b, child_recipe_id, recipe_id, ingredient)
             b2 == IF ~exists
                   THEN AddVariablesFrom([b1 EXCEPT !.expansions = Bump(@, child_recipe_id)],
                                         child_recipe_id, 1)
                   ELSE b1
         IN  AddChildren(b2, recipe_id, ingredient, Tail(creators))

AddVariables(b, recipe_id) ==
    AddVariablesFrom([b EXCEPT !.expansions = Bump(@, recipe_id)], recipe_id, 1)

\* the loop over recipes_to_add: one call of add_variables
ExpandNext ==
    /\ pc = "expand"
    /\ recipes_to_add # <<>>
    /\ LET b == AddVariables(Builder, Head(recipes_to_add))
       IN  /\ links' = b.links
           /\ problem' = [problem EXCEPT !.vars = b.vars]
           /\ expansions' = b.expansions
    /\ recipes_to_add' = Tail(recipes_to_add)
    /\ UNCHANGED <<catalog, keyOrder, targets, resources, disallowed_recipes, pc,
                   infeasible_recipes, stack, targets_left, solution, factory, inserts,
                   trims, disallowed_at_entry>>

ExpandDone ==
    /\ pc = "expand"
    /\ recipes_to_add = <<>>
    /\ pc' = "byproducts"
    /\ UNCHANGED <<catalog, keyOrder, targets, resources, disallowed_recipes,
                   infeasible_recipes, stack, targets_left, recipes_to_add, problem,
                   links, solution, factory, expansions, inserts, trims,
                   disallowed_at_entry>>

(***************************************************************************)
(* solve, the byproduct sinks.                                             *)
(***************************************************************************)
\* the sink test on the links' destinations instead of their items
NeedsSink_ByDestination(snapshot, node_id, product) ==
    \A i \in DOMAIN snapshot[node_id] : snapshot[node_id][i].destination # product

\* whether the node needs a sink for the product: none of the links it had
\* when the loop began carries it
NeedsSink(snapshot, node_id, product) ==
    \A i \in DOMAIN snapshot[node_id] : snapshot[node_id][i].item # product

RECURSIVE AddSinks(_, _, _, _), AddSinksOfNodes(_, _, _)
\* the product loop of one node, from product k on
AddSinks(b, snapshot, node_id, k) ==
    IF k > Len(GetProducts(node_id)) THEN b
    ELSE LET product == GetProducts(node_id)[k]
             b1 == IF NeedsSink(snapshot, node_id, product)
                   THEN AddWeightedVariable(b, node_id, product, product,
                                            ByproductCoefficient)
                   ELSE b
         IN  AddSinks(b1, snapshot, node_id, k + 1)

AddSinksOfNodes(b, snapshot, order) ==
    IF order = <<>> THEN b
    ELSE AddSinksOfNodes(
            IF StartsWithDesc(Head(order)) THEN b
            ELSE AddSinks(b, snapshot, Head(order), 1),
            snapshot, Tail(order))

\* the nodes of the snapshot whose iteration adds a link
SinkNodes(snapshot) ==
    {n \in DOMAIN snapshot :
        /\ ~StartsWithDesc(n)
        /\ \E k \in DOMAIN GetProducts(n) : NeedsSink(snapshot, n, GetProducts(n)[k])}

\* the loop over a clone of the link map; the map's iteration order decides
\* the order in which the sinks' variables are registered
AddByproductSinks ==
    /\ pc = "byproducts"
    /\ \E order \in Orders(SinkNodes(links)) :
         LET b == AddSinksOfNodes(Builder, links, order)
         IN  /\ links' = b.links
             /\ problem' = [problem EXCEPT !.vars = b.vars]
    /\ pc' = "constraints"
    /\ UNCHANGED <<catalog, keyOrder, targets, resources, disallowed_recipes,
                   infeasible_recipes, stack, targets_left, recipes_to_add, solution,
                   factory, expansions, inserts, trims, disallowed_at_entry>>

(***************************************************************************)
(* solve, constraint assembly.                                             *)
(***************************************************************************)
RECURSIVE SumCoefficients(_)
SumCoefficients(group) ==
    IF group = <<>> THEN 0 ELSE Head(group).coef + SumCoefficients(Tail(group))

RECURSIVE Ascending(_)
\* the numbers of S in ascending order
Ascending(S) ==
    IF S = {} THEN <<>>
    ELSE LET least == CHOOSE x \in S : \A y \in S : x <= y
         IN  <<least>> \o Ascending(S \ {least})

\* the terms of initial_lhs as they come, one per link
UngroupedLhs(initial_lhs) == initial_lhs

\* temp_lhs and lhs: the terms of initial_lhs grouped by variable index, one
\* term per index with the sum of the group's coefficients
GroupedLhs(initial_lhs) ==
    LET indices == Ascending({initial_lhs[i].var : i \in DOMAIN initial_lhs})
    IN  [g \in DOMAIN indices |->
            Term(indices[g],
                 SumCoefficients(SelectSeq(initial_lhs, LAMBDA t : t.var = indices[g])))]

\* the left-hand side before grouping: the incoming links of the ingredient
\* with the product's amount, the outgoing links of the product with minus
\* the ingredient's amount
InitialLhs(lk, node_id, in, out) ==
    LET inputs == GetIncomingForItem(lk, node_id, in.item)
        outputs == GetOutgoingForItem(lk, node_id, out.item)
    IN  [i \in 1..Len(inputs) |-> Term(inputs[i].variable, out.amount)]
        \o [i \in 1..Len(outputs) |-> Term(outputs[i].variable, 0 - in.amount)]

BalanceConstraint(lk, node_id, in, out) ==
    Constraint("balance", node_id, in.item, out.item,
               GroupedLhs(InitialLhs(lk, node_id, in, out)), "Eq", 0)

RECURSIVE ConstraintsOfNode(_, _, _, _), ConstraintsOfNodes(_, _)
\* the ingredient and product loops of one node, from the pair (i, p) on
ConstraintsOfNode(lk, node_id, i, p) ==
    LET recipe == data.recipes[node_id]
    IN  IF i > Len(recipe.ingredients) THEN <<>>
        ELSE IF p > Len(recipe.products) THEN ConstraintsOfNode(lk, node_id, i + 1, 1)
        ELSE <<BalanceConstraint(lk, node_id, recipe.ingredients[i], recipe.products[p])>>
             \o ConstraintsOfNode(lk, node_id, i, p + 1)

ConstraintsOfNodes(lk, order) ==
    IF order = <<>> THEN <<>>
    ELSE (IF StartsWithDesc(Head(order)) THEN <<>>
          ELSE ConstraintsOfNode(lk, Head(order), 1, 1))
         \o ConstraintsOfNodes(lk, Tail(order))

AssembleConstraints ==
    /\ pc = "constraints"
    /\ problem' = [problem EXCEPT
                     !.constraints = @ \o ConstraintsOfNodes(links, KeysInOrder(links))]
    /\ pc' = "solve"
    /\ UNCHANGED <<catalog, keyOrder, targets, resources, disallowed_recipes,
                   infeasible_recipes, stack, targets_left, recipes_to_add, links,
                   solution, factory, expansions, inserts, trims, disallowed_at_entry>>

(***************************************************************************)
(* The LP engine: any assignment of whole flows up to MaxFlow that keeps   *)
(* every variable within its bounds and satisfies every constraint.  When  *)
(* there is none, the engine fails (solve panics on the unwrap) or answers *)
(* outside these flows, and the model follows the run no further.          *)
(***************************************************************************)
Min(a, b) == IF a <= b THEN a ELSE b

\* the largest flow of variable v (variable v is problem.vars[v + 1])
Upper(v) == Min(MaxFlow, problem.vars[v + 1].max)

Lower(v) == problem.vars[v + 1].min

RECURSIVE Least(_, _), Most(_, _)
\* the least value a left-hand side can take when the assignment s to the
\* first Len(s) variables is completed within the variables' bounds
Least(terms, s) ==
    IF terms = <<>> THEN 0
    ELSE LET t == Head(terms)
             v == IF t.var < Len(s) THEN s[t.var + 1]
                  ELSE IF t.coef < 0 THEN Upper(t.var) ELSE Lower(t.var)
         IN  t.coef * v + Least(Tail(terms), s)

\* the largest such value
Most(terms, s) ==
    IF terms = <<>> THEN 0
    ELSE LET t == Head(terms)
             v == IF t.var < Len(s) THEN s[t.var + 1]
                  ELSE IF t.coef < 0 THEN Lower(t.var) ELSE Upper(t.var)
         IN  t.coef * v + Most(Tail(terms), s)

\* whether a completion of s can satisfy the constraint; for an assignment
\* to all variables: whether it satisfies the constraint
Satisfiable(c, s) ==
    IF c.op = "Eq" THEN Least(c.terms, s) <= c.rhs /\ c.rhs <= Most(c.terms, s)
    ELSE c.rhs <= Most(c.terms, s)

RECURSIVE Assignments(_)
\* the assignments to the first n variables that no constraint rules out
Assignments(n) ==
    IF n = 0
    THEN IF \A i \in DOMAIN problem.constraints :
                Satisfiable(problem.constraints[i], <<>>)
         THEN {<<>>} ELSE {}
    ELSE LET shorter == Assignments(n - 1)
         IN  IF shorter = {} THEN {}
             ELSE {s \in {Append(t, x) : t \in shorter, x \in Lower(n - 1)..Upper(n - 1)} :
                    \A i \in DOMAIN problem.constraints :
                        Satisfiable(problem.constraints[i], s)}

Solutions == Assignments(Len(problem.vars))

\* problem.solve().unwrap()
Solve ==
    /\ pc = "solve"
    /\ LET found == Solutions
       IN  IF found = {}
           THEN pc' = "unsolved" /\ UNCHANGED solution
           ELSE pc' = "nodes" /\ solution' \in found
    /\ UNCHANGED <<catalog, keyOrder, targets, resources, disallowed_recipes,
                   infeasible_recipes, stack, targets_left, recipes_to_add, problem,
                   links, factory, expansions, inserts, trims, disallowed_at_entry>>

(***************************************************************************)
(* Factory and the extraction of the solution.                             *)
(***************************************************************************)
Node(node_type, name) ==
    [node_type |-> node_type, name |-> name, inputs |-> EmptyMap, outputs |-> EmptyMap]

ItemRate(name, other_node_name, rate, underclock) ==
    [name |-> name, other_node_name |-> other_node_name, rate |-> rate,
     underclock |-> underclock]

\* the fraction num / den; 0 / 0 is the NaN of the code
Fraction(num, den) == [num |-> num, den |-> den]

\* floor(n / d)
FloorDiv(n, d) == n \div d

\* ceil(n / d) for n >= 0 and d > 0
CeilDiv(n, d) == (n + d - 1) \div d

\* the amount get_underclock ends its product loop with
ProductAmount(recipe, item_id) ==
    LET hits == SelectSeq(recipe.products, LAMBDA product : product.item = item_id)
    IN  IF hits = <<>> THEN 0 ELSE hits[Len(hits)].amount

\* the number of machines: ceil((rate * time) / (60 * amount))
Machines(rate, time, amount) == CeilDiv(rate * time, SecondsPerMinute * amount)

GetUnderclock(recipe_id, item_id, rate) ==
    IF StartsWithDesc(recipe_id) THEN Fraction(rate, 1)
    ELSE LET recipe == data.recipes[recipe_id]
         IN  Fraction(rate, Machines(rate, recipe.time, ProductAmount(recipe, item_id)))

AddNode(f, node_id, name, node_type) ==
    [f EXCEPT !.nodes = Put(@, node_id, Node(node_type, name))]

AddNodeInput(f, node_id, source, input) ==
    [f EXCEPT !.nodes[node_id].inputs = Put(@, source, input)]

AddNodeOutput(f, node_id, destination, output) ==
    [f EXCEPT !.nodes[node_id].outputs = Put(@, destination, output)]

NodeName(node_id) ==
    IF StartsWithDesc(node_id) THEN GetItemName(node_id) ELSE GetRecipeName(node_id)

\* the type of the node made for a key of the link map
KeyNodeType(node_id) ==
    IF StartsWithDesc(node_id)
    THEN IF node_id \in DOMAIN targets THEN "Output" ELSE "Input"
    ELSE "Production"

\* a destination node typed like a resource
DestinationNodeType_Input == "Input"

\* the type of the node made for a destination that is no key of the link map
DestinationNodeType == "Output"

RECURSIVE AddKeyNodes(_, _)
AddKeyNodes(f, order) ==
    IF order = <<>> THEN f
    ELSE AddKeyNodes(AddNode(f, Head(order), NodeName(Head(order)),
                             KeyNodeType(Head(order))),
                     Tail(order))

\* the loop that makes one node per key of the link map
CreateNodes ==
    /\ pc = "nodes"
    /\ factory' = AddKeyNodes(factory, KeysInOrder(links))
    /\ pc' = "edges"
    /\ UNCHANGED <<catalog, keyOrder, targets, resources, disallowed_recipes,
                   infeasible_recipes, stack, targets_left, recipes_to_add, problem,
                   links, solution, expansions, inserts, trims, disallowed_at_entry>>

\* the body of the edge loop for one link of node_id
RecordLink(f, node_id, link) ==
    LET item_name == GetItemName(link.item)
        item_rate == solution[link.variable + 1]
        other_node_name == NodeName(link.destination)
        this_node_name == NodeName(node_id)
        f1 == AddNodeOutput(f, node_id, link.destination,
                  ItemRate(item_name, other_node_name, item_rate,
                           GetUnderclock(node_id, link.item, item_rate)))
        f2 == IF link.destination \notin DOMAIN f1.nodes
              THEN AddNode(f1, link.destination, GetItemName(link.destination),
                           DestinationNodeType)
              ELSE f1
    IN  AddNodeInput(f2, link.destination, node_id,
                     ItemRate(item_name, this_node_name, item_rate, Fraction(0, 1)))

RECURSIVE RecordLinks(_, _, _), RecordNodes(_, _)
RecordLinks(f, node_id, node_links) ==
    IF node_links = <<>> THEN f
    ELSE RecordLinks(RecordLink(f, node_id, Head(node_links)), node_id, Tail(node_links))

RecordNodes(f, order) ==
    IF order = <<>> THEN f
    ELSE RecordNodes(RecordLinks(f, Head(order), links[Head(order)]), Tail(order))

\* the loop that records every link on both of its endpoints
RecordEdges ==
    /\ pc = "edges"
    /\ factory' = RecordNodes(factory, KeysInOrder(links))
    /\ pc' = "cleanup"
    /\ UNCHANGED <<catalog, keyOrder, targets, resources, disallowed_recipes,
                   infeasible_recipes, stack, targets_left, recipes_to_add, problem,
                   links, solution, expansions, inserts, trims, disallowed_at_entry>>

Abs(x) == IF x < 0 THEN 0 - x ELSE x

\* the test on the signed rate, below the negative threshold only
IsNoise_Signed(rate) == rate * NoiseDen <= 0 - NoiseNum

\* rate.abs() <= 0.00001
IsNoise(rate) == Abs(rate) * NoiseDen <= NoiseNum

WithoutNoise(entries) ==
    [k \in {x \in DOMAIN entries : ~IsNoise(entries[x].rate)} |-> entries[k]]

\* the cleanup loop: every node loses its noise entries, and is removed
\* when none of its entries is left
CleanedNodes(nodes) ==
    LET cleaned == [n \in DOMAIN nodes |->
                      [nodes[n] EXCEPT !.inputs = WithoutNoise(@),
                                       !.outputs = WithoutNoise(@)]]
    IN  [n \in {x \in DOMAIN cleaned :
                  ~(cleaned[x].inputs = EmptyMap /\ cleaned[x].outputs = EmptyMap)}
            |-> cleaned[n]]

Cleanup ==
    /\ pc = "cleanup"
    /\ factory' = [factory EXCEPT !.nodes = CleanedNodes(@)]
    /\ pc' = "done"
    /\ UNCHANGED <<catalog, keyOrder, targets, resources, disallowed_recipes,
                   infeasible_recipes, stack, targets_left, recipes_to_add, problem,
                   links, solution, expansions, inserts, trims, disallowed_at_entry>>

Next ==
    \/ \E resource \in AddCandidates : AddResource(resource, MaxFlow)
    \/ \E recipe_id \in RecipeIds : RemoveRecipe(recipe_id)
    \/ ScanInfeasible
    \/ PruneNext
    \/ TrimParent
    \/ TrimNextProduct
    \/ TrimReturn
    \/ PruneDone
    \/ \E output_item_id \in DOMAIN targets : TargetUnknown(output_item_id)
    \/ \E output_item_id \in DOMAIN targets : TargetKnown(output_item_id)
    \/ TargetsDone
    \/ ExpandNext
    \/ ExpandDone
    \/ AddByproductSinks
    \/ AssembleConstraints
    \/ Solve
    \/ CreateNodes
    \/ RecordEdges
    \/ Cleanup

Spec == Init /\ [][Next]_vars

(***************************************************************************)
(* Properties.                                                             *)
(***************************************************************************)
Pruned == pc \notin {"config", "prune"}

IngredientItems(recipe_id) ==
    {data.recipes[recipe_id].ingredients[k].item :
        k \in DOMAIN data.recipes[recipe_id].ingredients}

ProductItems(recipe_id) ==
    {data.recipes[recipe_id].products[k].item :
        k \in DOMAIN data.recipes[recipe_id].products}

\* every ingredient of the recipe is a configured resource or a product of
\* a recipe of the set allowed
FeasibleIn(recipe_id, allowed) ==
    \A i \in IngredientItems(recipe_id) :
        \/ i \in DOMAIN resources
        \/ \E q \in allowed : i \in ProductItems(q)

SelfSupporting(S) == \A r \in S : FeasibleIn(r, S)

LargestSelfSupporting ==
    UNION {S \in SUBSET (RecipeIds \ disallowed_at_entry) : SelfSupporting(S)}

\* C1: after the pruning phase every recipe outside the disallowed set is
\* feasible, and the allowed recipes are exactly the largest subset of the
\* initially allowed recipes in which every recipe is feasible (so the
\* disallowed set is the initial one plus the recipes that are infeasible or
\* transitively left without a producer).
C1_PruningIsMaximal ==
    Pruned =>
        /\ SelfSupporting(RecipeIds \ disallowed_recipes)
        /\ disallowed_at_entry \subseteq disallowed_recipes
        /\ RecipeIds \ disallowed_recipes = LargestSelfSupporting

\* pruning has ended on the cyclic catalog, having disallowed a recipe that
\* was feasible when solve began
C1_Witness ==
    /\ pc = "targets"
    /\ catalog = "cycle"
    /\ \E r \in disallowed_recipes \ disallowed_at_entry :
            FeasibleIn(r, RecipeIds \ disallowed_at_entry)

\* the edges of the link set
Edges ==
    UNION {{[source |-> n, item |-> links[n][i].item,
             destination |-> links[n][i].destination,
             variable |-> links[n][i].variable] : i \in DOMAIN links[n]} :
           n \in DOMAIN links}

\* the targets whose iteration of the target loop has ended
VisitedTargets == IF Pruned THEN (DOMAIN targets) \ targets_left ELSE {}

RateConstraints(t) ==
    {i \in DOMAIN problem.constraints :
        problem.constraints[i].kind = "target" /\ problem.constraints[i].node = t}

TermVars(c) == {c.terms[j].var : j \in DOMAIN c.terms}

RECURSIVE SumRates(_, _)
\* the sum of the rates of the entries under the keys S
SumRates(entries, S) ==
    IF S = {} THEN 0
    ELSE LET k == CHOOSE x \in S : TRUE
         IN  entries[k].rate + SumRates(entries, S \ {k})

\* the sum of the rates of the input entries of a node of the Factory
Inflow(node_id) ==
    IF node_id \in DOMAIN factory.nodes
    THEN SumRates(factory.nodes[node_id].inputs, DOMAIN factory.nodes[node_id].inputs)
    ELSE 0

Extracted == pc \in {"cleanup", "done"}

\* C2: every requested target has exactly one rate constraint: an equality
\* between the requested rate and the sum, with coefficient 1, of the flows
\* of all the edges that end at the target's node; and in the extracted
\* Factory the rates entering the target's node add up to the requested rate.
C2_TargetRateIsExact ==
    \A t \in VisitedTargets :
        /\ Cardinality(RateConstraints(t)) = 1
        /\ \A i \in RateConstraints(t) :
             LET c == problem.constraints[i]
             IN  /\ c.op = "Eq"
                 /\ c.rhs = targets[t]
                 /\ \A j \in DOMAIN c.terms : c.terms[j].coef = 1
                 /\ Cardinality(TermVars(c)) = Len(c.terms)
                 /\ TermVars(c) = {e.variable : e \in {x \in Edges : x.destination = t}}
        /\ Extracted => Inflow(t) = targets[t]

\* a Factory in which a target is fed by two producers and is also consumed
\* by a recipe
C2_Witness ==
    /\ pc = "done"
    /\ \E t \in DOMAIN targets :
         /\ t \in DOMAIN factory.nodes
         /\ Cardinality(DOMAIN factory.nodes[t].inputs) >= 2
         /\ \E e \in Edges : e.item = t /\ e.destination # t

\* the production nodes of the graph: the recipes that are an endpoint of an
\* edge
ProductionNodes ==
    ({e.source : e \in Edges} \cup {e.destination : e \in Edges}) \ DescIds

Assembled == pc \in {"solve", "unsolved", "nodes", "edges", "cleanup", "done"}

BalanceConstraints(n, i, p) ==
    {k \in DOMAIN problem.constraints :
        /\ problem.constraints[k].kind = "balance"
        /\ problem.constraints[k].node = n
        /\ problem.constraints[k].ingredient = i
        /\ problem.constraints[k].product = p}

\* the variables of the edges that bring the item to the node
IncomingVars(n, item) ==
    {e.variable : e \in {x \in Edges : x.destination = n /\ x.item = item}}

\* the variables of the edges on which the item leaves the node
OutgoingVars(n, item) ==
    {e.variable : e \in {x \in Edges : x.source = n /\ x.item = item}}

\* the coefficient the balance of (in, out) at node n gives variable v
BalanceCoefficient(n, in, out, v) ==
    (IF v \in IncomingVars(n, in.item) THEN out.amount ELSE 0)
    - (IF v \in OutgoingVars(n, out.item) THEN in.amount ELSE 0)

\* C3: after constraint assembly every production node has, for every
\* (ingredient, product) pair of its recipe, exactly one balance constraint;
\* it is an equality with 0 whose variables are those of the incoming
\* ingredient edges and of the outgoing product edges, each appearing once,
\* with coefficient product_amount for an incoming edge, -ingredient_amount
\* for an outgoing edge and product_amount - ingredient_amount for an edge
\* that is both; and there is no other balance constraint.
C3_BalanceConstraints ==
    Assembled =>
        /\ ProductionNodes \subseteq DOMAIN links
        /\ \A n \in ProductionNodes :
             \A i \in DOMAIN data.recipes[n].ingredients :
               \A p \in DOMAIN data.recipes[n].products :
                 LET in == data.recipes[n].ingredients[i]
                     out == data.recipes[n].products[p]
                     found == BalanceConstraints(n, in.item, out.item)
                 IN  /\ Cardinality(found) = 1
                     /\ \A k \in found :
                          LET c == problem.constraints[k]
                          IN  /\ c.op = "Eq"
                              /\ c.rhs = 0
                              /\ Cardinality(TermVars(c)) = Len(c.terms)
                              /\ TermVars(c) = IncomingVars(n, in.item)
                                               \cup OutgoingVars(n, out.item)
                              /\ \A j \in DOMAIN c.terms :
                                   c.terms[j].coef =
                                     BalanceCoefficient(n, in, out, c.terms[j].var)
        /\ \A k \in DOMAIN problem.constraints :
             problem.constraints[k].kind = "balance" =>
                /\ problem.constraints[k].node \in ProductionNodes
                /\ problem.constraints[k].ingredient
                     \in IngredientItems(problem.constraints[k].node)
                /\ problem.constraints[k].product
                     \in ProductItems(problem.constraints[k].node)

\* the constraints are assembled and one of them has a term for a self-loop:
\* an edge from a node to itself that carries an ingredient of the node
\* which is also the product of the constraint
C3_Witness ==
    /\ Assembled
    /\ \E e \in Edges :
         /\ e.source = e.destination
         /\ \E k \in DOMAIN problem.constraints :
              LET c == problem.constraints[k]
              IN  /\ c.kind = "balance"
                  /\ c.node = e.source
                  /\ c.ingredient = e.item
                  /\ c.product = e.item
                  /\ \E j \in DOMAIN c.terms :
                       c.terms[j].var = e.variable /\ c.terms[j].coef = 1

SinksAdded == pc \in {"constraints", "solve", "unsolved", "nodes", "edges", "cleanup", "done"}

\* the byproduct sink edges of node n for the product
SinkEdges(n, product) ==
    {e \in Edges :
        /\ e.source = n
        /\ e.item = product
        /\ e.destination = product
        /\ problem.vars[e.variable + 1] =
             [weight |-> ByproductCoefficient, min |-> 0, max |-> F64Max]}

\* the other edges on which the product leaves node n
ClaimedEdges(n, product) ==
    {e \in Edges : e.source = n /\ e.item = product} \ SinkEdges(n, product)

\* C5: after graph construction, every production node has for every
\* product of its recipe a byproduct sink edge (to the product's own node,
\* weighted with the byproduct coefficient, bounded by 0 and f64::MAX) if
\* and only if no other outgoing edge of the node carries the product; so
\* every product of every production node leaves it on at least one edge.
C5_ByproductSinks ==
    SinksAdded =>
        \A n \in ProductionNodes :
            \A product \in ProductItems(n) :
                /\ Cardinality(SinkEdges(n, product)) <= 1
                /\ SinkEdges(n, product) # {} <=> ClaimedEdges(n, product) = {}
                /\ \E e \in Edges : e.source = n /\ e.item = product

\* a production node with one product that has a sink and one that has none
C5_Witness ==
    /\ SinksAdded
    /\ \E n \in ProductionNodes :
         \E p, q \in ProductItems(n) :
            SinkEdges(n, p) # {} /\ SinkEdges(n, q) = {}

Entries(node) ==
    {node.inputs[k] : k \in DOMAIN node.inputs}
    \cup {node.outputs[k] : k \in DOMAIN node.outputs}

\* C6: in the Factory solve returns, no node has an input or output entry
\* with a rate of magnitude at most 0.00001, and no node is without entries.
C6_NoNoiseLeft ==
    pc = "done" =>
        \A n \in DOMAIN factory.nodes :
            /\ \A e \in Entries(factory.nodes[n]) : Abs(e.rate) * NoiseDen > NoiseNum
            /\ Entries(factory.nodes[n]) # {}

\* a Factory from which the cleanup has removed a node and, from a node it
\* kept, an entry
C6_Witness ==
    /\ pc = "done"
    /\ \E n \in DOMAIN links : n \notin DOMAIN factory.nodes
    /\ \E e \in Edges :
         /\ solution[e.variable + 1] = 0
         /\ e.source \in DOMAIN factory.nodes
         /\ e.destination \notin DOMAIN factory.nodes[e.source].outputs

\* the entry ItemRate records for an edge on one of its endpoints
RecordsEdge(entry, e) ==
    entry.name = GetItemName(e.item) /\ entry.rate = solution[e.variable + 1]

\* C4: when the edge loop of the extraction has ended, before the cleanup,
\* every edge of the edge set is recorded on both endpoints: its source node
\* holds an output entry for it and its destination node an input entry for
\* it, with the edge's item and solved rate.
C4_EveryEdgeRecorded ==
    pc = "cleanup" =>
        \A e \in Edges :
            /\ e.source \in DOMAIN factory.nodes
            /\ e.destination \in DOMAIN factory.nodes
            /\ e.destination \in DOMAIN factory.nodes[e.source].outputs
            /\ RecordsEdge(factory.nodes[e.source].outputs[e.destination], e)
            /\ e.source \in DOMAIN factory.nodes[e.destination].inputs
            /\ RecordsEdge(factory.nodes[e.destination].inputs[e.source], e)

Aborted == pc = "panic_not_an_item"

\* C7, as claimed: when solve aborts on a target that is no item of the
\* catalog, no variable and no constraint has been registered.
C7_NothingRegisteredAtAbort ==
    Aborted => problem.vars = <<>> /\ problem.constraints = <<>>

PastTargetLoop ==
    pc \in {"expand", "byproducts", "constraints", "solve", "unsolved", "nodes",
            "edges", "cleanup", "done"}

\* C7, amended: with a requested target that is no item of the catalog,
\* solve never leaves the target loop (no recipe is expanded, no balance
\* constraint is registered, the LP is not solved, no Factory is built), and
\* when it aborts the problem holds only what the targets visited before
\* registered: one variable per edge from a producer to such a target and
\* one rate constraint per such target.
C7_AbortInTargetLoop ==
    /\ (\E t \in DOMAIN targets : t \notin DOMAIN data.items) =>
          /\ ~PastTargetLoop
          /\ solution = NoSolution
          /\ factory.nodes = EmptyMap
          /\ \A r \in RecipeIds : expansions[r] = 0
    /\ Aborted =>
          /\ \E t \in targets_left : t \notin DOMAIN data.items
          /\ \A e \in Edges : e.destination \in VisitedTargets /\ e.item = e.destination
          /\ Len(problem.vars) = Cardinality(Edges)
          /\ Len(problem.constraints) = Cardinality(VisitedTargets)
          /\ \A k \in DOMAIN problem.constraints :
                /\ problem.constraints[k].kind = "target"
                /\ problem.constraints[k].node \in VisitedTargets

\* solve aborts on an unknown target after another target has registered
\* its variables and its rate constraint
C7_Witness ==
    /\ Aborted
    /\ problem.vars # <<>>
    /\ problem.constraints # <<>>

\* C8, as claimed: a node of the Factory with an item id is typed Output
\* when the item is a requested target and Input otherwise; a node with a
\* recipe id is typed Production.
C8_ItemNodesInputUnlessTarget ==
    \A n \in DOMAIN factory.nodes :
        factory.nodes[n].node_type =
            IF n \in DescIds
            THEN IF n \in DOMAIN targets THEN "Output" ELSE "Input"
            ELSE "Production"

\* C8, amended: a node of the Factory with a recipe id is typed Production;
\* a node with an item id is typed Input when the item is the source of an
\* edge and is no requested target, and Output otherwise (a requested
\* target, or an item that is only the destination of edges, such as the
\* sink of a byproduct).
C8_NodeTypes ==
    \A n \in DOMAIN factory.nodes :
        factory.nodes[n].node_type =
            IF n \in DescIds
            THEN IF n \in {e.source : e \in Edges} /\ n \notin DOMAIN targets
                 THEN "Input" ELSE "Output"
            ELSE "Production"

\* the returned Factory keeps the sink node of a byproduct that is no
\* target, typed Output, and an Input node
C8_Witness ==
    /\ pc = "done"
    /\ \E n \in DOMAIN factory.nodes :
         /\ n \in DescIds
         /\ n \notin DOMAIN targets
         /\ factory.nodes[n].node_type = "Output"
    /\ \E n \in DOMAIN factory.nodes : factory.nodes[n].node_type = "Input"

\* the edge an output entry of a node stands for: the last of the node's
\* links to that destination
LastLinkTo(n, destination) ==
    LET to == SelectSeq(links[n], LAMBDA l : l.destination = destination)
    IN  to[Len(to)]

\* C9: the item of every edge that leaves a recipe is a product of that
\* recipe; and every output entry of a production node with rate r > 0,
\* for cycle time t and per-cycle amount a of the item it carries, reports
\* the underclock r / m for the number of machines m = ceil(r*t / (60*a)),
\* and underclock * t <= 60 * a.
C9_Underclock ==
    /\ \A e \in Edges : e.source \notin DescIds => e.item \in ProductItems(e.source)
    /\ Extracted =>
         \A n \in DOMAIN factory.nodes :
            factory.nodes[n].node_type = "Production" =>
               \A d \in DOMAIN factory.nodes[n].outputs :
                  LET entry == factory.nodes[n].outputs[d]
                      link == LastLinkTo(n, d)
                      r == entry.rate
                      t == data.recipes[n].time
                      amounts == {q.amount : q \in {x \in Range(data.recipes[n].products) :
                                                        x.item = link.item}}
                      m == entry.underclock.den
                  IN  r > 0 =>
                        /\ entry.name = GetItemName(link.item)
                        /\ Cardinality(amounts) = 1
                        /\ \A a \in amounts :
                              /\ entry.underclock.num = r
                              /\ m >= 1
                              /\ (m - 1) * SecondsPerMinute * a < r * t
                              /\ r * t <= m * SecondsPerMinute * a
                              /\ entry.underclock.num * t
                                   <= SecondsPerMinute * a * entry.underclock.den

\* an output entry of a production node that needs several machines, each
\* running below its full rate
C9_Witness ==
    /\ pc = "done"
    /\ \E n \in DOMAIN factory.nodes :
         /\ factory.nodes[n].node_type = "Production"
         /\ \E d \in DOMAIN factory.nodes[n].outputs :
              LET entry == factory.nodes[n].outputs[d]
                  a == ProductAmount(data.recipes[n], LastLinkTo(n, d).item)
              IN  /\ entry.rate > 0
                  /\ entry.underclock.den >= 2
                  /\ entry.underclock.num * data.recipes[n].time
                       < SecondsPerMinute * a * entry.underclock.den

GraphBuilt ==
    pc \in {"byproducts", "constraints", "solve", "unsolved", "nodes", "edges",
            "cleanup", "done"}

\* C10: after graph construction the ingredient expansion of every recipe
\* has run at most once, and no two edges share their source, destination
\* and item.
C10_ExpandedOnce ==
    GraphBuilt =>
        /\ \A r \in RecipeIds : expansions[r] <= 1
        /\ \A e, f \in Edges :
             (e.source = f.source /\ e.destination = f.destination /\ e.item = f.item)
                => e = f

\* C11: during the pruning phase every recipe is inserted into the
\* disallowed set at most once and trim_parents is called on it at most
\* once.
C11_DisallowedOnce ==
    \A r \in RecipeIds : inserts[r] <= 1 /\ trims[r] <= 1

====
